---- MODULE Spec2Model ----
(***************************************************************************)
(* The todo HTTP backend: POST /register, POST /login, the JWT auth gate   *)
(* (authMiddleware) in front of GET /protected, GET /todos/:id and         *)
(* PUT /todos/:id, the catch-all error handler, and the three external     *)
(* services the handlers call (the DynamoDB table, the SSM parameter that  *)
(* holds the signing secret, the welcome notification).                    *)
(*                                                                         *)
(* The repository holds three versions of the application file; the        *)
(* variable "variant" says which one is deployed:                          *)
(*   "index"    src/src/index.js      hard-coded secret, no validation,    *)
(*                                    no notification, no try/catch        *)
(*   "part_000" src/unnamed/part_000  SSM secret, length validation, SQS   *)
(*                                    notification, no try/catch           *)
(*   "part_001" src/unnamed/part_001  SSM secret, length + email           *)
(*                                    validation, SES mail, try/catch      *)
(*                                                                         *)
(* A request is a process: it runs from one await to the next in one step. *)
(* An awaited external call takes effect, or fails, at the step in which   *)
(* the handler resumes.  The PutItem of PUT /todos/:id is not awaited: it  *)
(* stays in flight after the response and lands or fails on its own.       *)
(***************************************************************************)
EXTENDS Integers, Sequences, FiniteSets, TLC

VARIABLES
  variant,    \* which version of the application file is running
  workload,   \* which group of clients the run serves
  table,      \* the DynamoDB table: marshalled key -> marshalled item
  now,        \* Math.floor(Date.now() / 1000)
  ticks,      \* how many times the clock has advanced
  req,        \* slot -> the request that arrived in it
  pc,         \* slot -> position of the request's handler
  local,      \* slot -> the handler's local variables and req.user
  calls,      \* slot -> external calls the request has issued, in order
  resp,       \* slot -> responses sent for the request, in order
  inflight,   \* un-awaited PutItem calls that have neither landed nor failed
  unhandled,  \* slots whose promise rejected with nobody to catch it
  failed,     \* slots one of whose external calls was rejected
  issued,     \* the tokens clients hold: every token a login has answered
  before      \* slot -> the slots already answered when its request arrived

vars == <<variant, workload, table, now, ticks, req, pc, local, calls, resp, inflight,
          unhandled, failed, issued, before>>

----------------------------------------------------------------------------
(* Bounds *)

MaxReq == 3      \* requests in one run
MaxTicks == 2    \* clock advances in one run
MaxInFlight == 2 \* requests being handled at the same time

Slots == 1..MaxReq

----------------------------------------------------------------------------
(* Program constants *)

TokenTtl == 43200         \* 60 * 60 * 12
MinFieldLength == 3       \* req.body[field].length < 3

Variants == {"index", "part_000", "part_001"}

HardCodedSecret == "mysecretkey"
SsmParameterValue == "ssm-secret"

\* The key a token is signed and verified with when no call fails.
SigningSecret(v) == IF v = "index" THEN HardCodedSecret ELSE SsmParameterValue

HasValidation(v) == v # "index"
HasEmailValidation(v) == v = "part_001"
HasNotification(v) == v # "index"
HasTryCatch(v) == v = "part_001"
HasEmailClaim(v) == v # "index"
UsesSsm(v) == v # "index"

----------------------------------------------------------------------------
(* Strings and values *)

\* `${x}` of a body attribute: a missing attribute prints as "undefined".
Str(obj, f) == IF f \in DOMAIN obj THEN obj[f] ELSE "undefined"

\* crypto.pbkdf2Sync(password, salt, 1000, 64, 'sha512').toString('hex'):
\* a deterministic digest of both arguments.
pbkdf2Sync(password, salt) == "pbkdf2(" \o password \o "," \o salt \o ")"

\* crypto.randomBytes(16).toString('hex')
Salts == {"5a17", "c0de"}

\* An email address is a sequence of one-character strings.
Letters == {"a", "b", "c", "o", "m"}
Digits == {"1"}
DomainChars == Letters \cup Digits \cup {"-"}
LocalForbidden == {"<", ">", "(", ")", "[", "]", "\\", ".", ",", ";", ":", " ", "@", "\""}

\* The regular expression of validateEmail on unquoted local parts and named
\* domains: atoms separated by single dots, "@", labels of [a-zA-Z\-0-9]
\* each followed by a dot, then at least two letters.
validateEmail(email) ==
  \E k \in 1..Len(email) :
    /\ email[k] = "@"
    /\ k > 1
    /\ \A i \in 1..(k - 1) :
         /\ email[i] = "." \/ email[i] \notin LocalForbidden
         /\ email[i] = "." => /\ i > 1 /\ i < k - 1
                              /\ email[i + 1] # "."
    /\ \E d \in (k + 2)..(Len(email) - 2) :
         /\ email[d] = "."
         /\ \A i \in (d + 1)..Len(email) : email[i] \in Letters
         /\ \A i \in (k + 1)..(d - 1) :
              /\ email[i] = "." \/ email[i] \in DomainChars
              /\ email[i] = "." => /\ i > k + 1
                                   /\ email[i + 1] # "."

\* marshall() of an item {pk, sk, data, created_at} or of a key {pk, sk}:
\* strings become {S: ...}, the data map becomes {M: {...}} of marshalled
\* attributes.  A map with an undefined value makes marshall throw: such a
\* map is never passed here (see RegisterGetItemReturns).
MarshallValue(v) == [S |-> v]
MarshallMap(m) == [M |-> [f \in DOMAIN m |-> MarshallValue(m[f])]]
marshall(item) ==
  [a \in DOMAIN item |->
     IF a = "data" THEN MarshallMap(item[a]) ELSE MarshallValue(item[a])]

UnmarshallValue(av) == av.S
UnmarshallMap(av) == [f \in DOMAIN av.M |-> UnmarshallValue(av.M[f])]
unmarshall(item) ==
  [a \in DOMAIN item |->
     IF a = "data" THEN UnmarshallMap(item[a]) ELSE UnmarshallValue(item[a])]

----------------------------------------------------------------------------
(* The table *)

undefined == <<>>

EmptyTable == <<>>

KeyOf(item) == [pk |-> item.pk, sk |-> item.sk]

\* A GetItem that never finds the item.
GetItemNeverFinds(key) == undefined

\* GetItemCommand: response.Item, undefined when the key is absent
GetItem(key) == IF key \in DOMAIN table THEN table[key] ELSE undefined

\* A put that leaves an item already stored under the key alone.
PutItemIfAbsent(tbl, item) ==
  IF KeyOf(item) \in DOMAIN tbl
  THEN tbl
  ELSE [k \in DOMAIN tbl \cup {KeyOf(item)} |-> IF k = KeyOf(item) THEN item ELSE tbl[k]]

\* PutItemCommand with no condition: creates or replaces the item
PutItem(tbl, item) ==
  [k \in DOMAIN tbl \cup {KeyOf(item)} |-> IF k = KeyOf(item) THEN item ELSE tbl[k]]

UserKey(username) == marshall([pk |-> "user#" \o username, sk |-> "user"])

TodoSkPrefix(v) == IF v = "part_001" THEN "todo#" ELSE "todo-"

\* A sort key that leaves the username out.
TodoSkShared(v, username) == TodoSkPrefix(v)

\* sk of a todo: `todo#${req.user.username}` ('todo-' in the older files)
TodoSk(v, username) == TodoSkPrefix(v) \o username

TodoKey(v, id, username) ==
  marshall([pk |-> "todo#" \o id, sk |-> TodoSk(v, username)])

\* const user = { username, password: hashedPassword, salt, fullname, email }
\* (index.js keeps username, password and salt only), wrapped in the item.
UserItem(v, body, salt, t) ==
  LET attrs == IF v = "index" THEN {"username", "password", "salt"}
               ELSE {"username", "password", "salt", "fullname", "email"}
      user == [a \in attrs |->
                 CASE a = "password" -> pbkdf2Sync(body.password, salt)
                   [] a = "salt" -> salt
                   [] OTHER -> body[a]]
  IN [pk |-> "user#" \o body.username, sk |-> "user", data |-> user, created_at |-> t]

\* The item of PUT /todos/:id (index.js and part_000 store no created_at).
TodoItem(v, id, username, payload, t) ==
  IF v = "part_001"
  THEN [pk |-> "todo#" \o id, sk |-> TodoSk(v, username),
        data |-> payload, created_at |-> t]
  ELSE [pk |-> "todo#" \o id, sk |-> TodoSk(v, username), data |-> payload]

----------------------------------------------------------------------------
(* Tokens *)

\* The HMAC of a payload under a key: equal only for equal payload and key.
Hmac(payload, key) == [signed |-> payload, key |-> key]

\* jwt.sign({ username, email, exp }, secretKey): an undefined username is
\* dropped by JSON.stringify, iat is added by the library.
jwtSign(v, body, email, t, secretKey) ==
  LET claims == ({"username"} \cap DOMAIN body)
                  \cup (IF HasEmailClaim(v) THEN {"email"} ELSE {})
                  \cup {"exp", "iat"}
      payload == [c \in claims |->
                    CASE c = "username" -> body.username
                      [] c = "email" -> email
                      [] c = "exp" -> t + TokenTtl
                      [] OTHER -> t]
  IN [payload |-> payload, sig |-> Hmac(payload, secretKey)]

Space == [w |-> " "]
Word(s) == [w |-> s]
IsToken(chunk) == "payload" \in DOMAIN chunk

\* authHeader.split(' '): the pieces between single spaces
RECURSIVE SplitSpace(_)
SplitSpace(h) ==
  IF \A i \in 1..Len(h) : h[i] # Space
  THEN <<h>>
  ELSE LET k == CHOOSE i \in 1..Len(h) :
                  /\ h[i] = Space
                  /\ \A j \in 1..(i - 1) : h[j] # Space
       IN <<SubSeq(h, 1, k - 1)>> \o SplitSpace(SubSeq(h, k + 1, Len(h)))

\* The first piece, the scheme, taken for the token.
HeaderTokenIsScheme(h) == SplitSpace(h)[1]

\* authHeader.split(' ')[1]; undefined and "" are both the empty piece here,
\* and both are falsy in `if (!token)`.
HeaderToken(h) ==
  LET parts == SplitSpace(h)
  IN IF Len(parts) < 2 THEN <<>> ELSE parts[2]

\* A verification that does not look at the signature.
jwtVerifiesUnsigned(token, secretKey, t) ==
  /\ Len(token) = 1
  /\ IsToken(token[1])
  /\ "exp" \in DOMAIN token[1].payload => t < token[1].payload.exp

\* A verification that still accepts the token at the second it expires.
jwtVerifiesAtExpiry(token, secretKey, t) ==
  /\ Len(token) = 1
  /\ IsToken(token[1])
  /\ token[1].sig = Hmac(token[1].payload, secretKey)
  /\ "exp" \in DOMAIN token[1].payload => t <= token[1].payload.exp

\* jwt.verify(token, secretKey) at time t does not throw: the string is a
\* well-formed token, its signature is the HMAC of its payload under
\* secretKey, and (jsonwebtoken: clockTimestamp >= payload.exp is
\* "jwt expired") the time is before exp.
jwtVerifies(token, secretKey, t) ==
  /\ Len(token) = 1
  /\ IsToken(token[1])
  /\ token[1].sig = Hmac(token[1].payload, secretKey)
  /\ "exp" \in DOMAIN token[1].payload => t < token[1].payload.exp

\* what jwt.verify returns: the decoded payload
jwtDecoded(token) == token[1].payload

----------------------------------------------------------------------------
(* What clients send *)

Profile1 == [password |-> "abcdef", fullname |-> "Abc Def",
             email |-> <<"a", "@", "b", ".", "c", "o", "m">>]
Profile2 == [password |-> "xyz123", fullname |-> "Bob Roe",
             email |-> <<"b", "o", "b", "@", "m", "1", ".", "c", "o">>]

RegisterBody(u, p) ==
  [username |-> u, password |-> p.password, fullname |-> p.fullname, email |-> p.email]

Without(body, f) == [a \in DOMAIN body \ {f} |-> body[a]]
Shortened(body, f) ==
  [body EXCEPT ![f] = IF f = "email" THEN <<"a", "@">> ELSE "ab"]

Required == <<"username", "password", "fullname", "email">>
RequiredSet == {Required[i] : i \in 1..Len(Required)}

\* One well-formed body spoiled in every way the handler looks for.
InvalidRegisterBodies ==
  LET b == RegisterBody("abc", Profile1)
  IN {Without(b, f) : f \in RequiredSet}
       \cup {Shortened(b, f) : f \in RequiredSet}
       \cup {[b EXCEPT !.email = <<"a", "@", "b", ".", "c">>],
             [b EXCEPT !.email = <<"a", ".", "b", "c", "o", "m">>]}

\* A token signed by somebody who does not know the secret, and one whose
\* payload was rewritten under a signature the server made for another.
AttackerKey == "guess"
Forged(t) == [payload |-> t.payload, sig |-> Hmac(t.payload, AttackerKey)]
Tampered(t) ==
  [payload |-> [t.payload EXCEPT !.username = IF @ = "abc" THEN "bob" ELSE "abc"],
   sig |-> t.sig]

Bearer(chunk) == <<Word("Bearer"), Space, chunk>>

HeadersWithoutToken == {<<>>, <<Word("Bearer")>>, <<Word("Bearer"), Space>>,
                        <<Word("Bearer"), Space, Space, Word("x")>>}

NoBody == <<>>

Register(body) == [route |-> "register", body |-> body, header |-> <<>>, id |-> ""]
Login(body) == [route |-> "login", body |-> body, header |-> <<>>, id |-> ""]
Protected(h) == [route |-> "protected", body |-> NoBody, header |-> h, id |-> ""]
GetTodo(h, i) == [route |-> "getTodo", body |-> NoBody, header |-> h, id |-> i]
PutTodo(h, i, b) == [route |-> "putTodo", body |-> b, header |-> h, id |-> i]

Milk == [title |-> "milk"]
Eggs == [title |-> "eggs", done |-> "no"]

\* The token a login of u at time t is answered with.
TokenAt(v, u, p, t) == jwtSign(v, RegisterBody(u, p), p.email, t, SigningSecret(v))

\* A run serves one group of clients:
\*   "validation"  registrations with well-formed and spoiled bodies
\*   "accounts"    registrations and logins of the same few users
\*   "gate"        every kind of authorization header on the gated routes
\*   "session"     a user logs in and uses the token while time passes
\*   "todos"       two logged-in users read and write todos
Workloads == {"validation", "accounts", "gate", "session", "todos"}

\* The requests the clients of workload w may send, holding the tokens held.
Offered(w, v, held) ==
  CASE w = "validation" ->
         {Register(b) : b \in InvalidRegisterBodies \cup {RegisterBody("abc", Profile1)}}
    [] w = "accounts" ->
         {Register(RegisterBody("abc", Profile1)), Register(RegisterBody("abc", Profile2)),
          Login([username |-> "abc", password |-> "abcdef"]),
          Login([username |-> "abc", password |-> "xyz123"]),
          Login([username |-> "bob", password |-> "abcdef"]),
          Login([username |-> "abc"]),
          Login([password |-> "abcdef"])}
    [] w = "gate" ->
         LET good == TokenAt(v, "abc", Profile1, 0)
             hs == HeadersWithoutToken
                     \cup {Bearer(Word("not.a.jwt")), Bearer(Forged(good)),
                           Bearer(Tampered(good))}
                     \cup {Bearer(t) : t \in held}
         IN {Protected(h) : h \in hs}
              \cup {GetTodo(h, "1") : h \in hs}
              \cup {PutTodo(h, "1", Milk) : h \in hs}
    [] w = "session" ->
         {Login([username |-> "abc", password |-> "abcdef"]),
          Register(RegisterBody("eve", Profile2))}
           \cup {Protected(Bearer(t)) : t \in held}
           \cup {PutTodo(Bearer(t), "1", Milk) : t \in held}
    [] OTHER ->
         LET abc == Bearer(TokenAt(v, "abc", Profile1, 0))
             bob == Bearer(TokenAt(v, "bob", Profile2, 0))
         IN {PutTodo(abc, "1", Milk), PutTodo(abc, "1", Eggs), PutTodo(abc, "2", Eggs),
             PutTodo(bob, "1", Eggs),
             GetTodo(abc, "1"), GetTodo(abc, "2"), GetTodo(bob, "1")}

\* The workloads with many different requests run one request fewer.
SlotsOf(w) == IF w \in {"validation", "gate"} THEN 1..(MaxReq - 1) ELSE 1..MaxReq

\* The clock matters to the session only.
TicksOf(w) == IF w = "session" THEN MaxTicks ELSE 0

----------------------------------------------------------------------------
(* Initial states *)

NoRequest == [route |-> "", body |-> NoBody, header |-> <<>>, id |-> ""]
NoLocal == [item |-> undefined, secretKey |-> "", user |-> undefined, ran |-> FALSE]

\* The table after "abc" and "bob" registered at time 0.
RegisteredTable(v) ==
  PutItem(PutItem(EmptyTable,
                  marshall(UserItem(v, RegisterBody("abc", Profile1), "5a17", 0))),
          marshall(UserItem(v, RegisterBody("bob", Profile2), "c0de", 0)))

\* The table a workload starts from.
InitialTable(w, v) ==
  IF w \in {"validation", "accounts"} THEN EmptyTable ELSE RegisteredTable(v)

\* The tokens its clients hold: at the gate one issued now and one issued
\* twelve hours ago, for the todos one for each of the two users.
InitialTokens(w, v) ==
  CASE w = "gate" -> {TokenAt(v, "abc", Profile1, 0), TokenAt(v, "abc", Profile1, 0 - TokenTtl)}
    [] w = "todos" -> {TokenAt(v, "abc", Profile1, 0), TokenAt(v, "bob", Profile2, 0)}
    [] OTHER -> {}

Init ==
  /\ variant \in Variants
  /\ workload \in Workloads
  /\ table = InitialTable(workload, variant)
  /\ issued = InitialTokens(workload, variant)
  /\ now = 0
  /\ ticks = 0
  /\ req = [r \in Slots |-> NoRequest]
  /\ pc = [r \in Slots |-> "new"]
  /\ local = [r \in Slots |-> NoLocal]
  /\ calls = [r \in Slots |-> <<>>]
  /\ resp = [r \in Slots |-> <<>>]
  /\ inflight = {}
  /\ unhandled = {}
  /\ failed = {}
  /\ before = [r \in Slots |-> {}]

----------------------------------------------------------------------------
(* Responding, awaiting, failing *)

AnsweredSlots == {s \in Slots : resp[s] # <<>>}

\* The requests whose handler is waiting for an external call.
BeingHandled == {s \in Slots : pc[s] \notin {"new", "done", "hung"}}

\* The next free slot can take a request.
CanArrive(r) ==
  /\ r \in SlotsOf(workload)
  /\ pc[r] = "new"
  /\ IF r = 1 THEN TRUE ELSE pc[r - 1] # "new"
  /\ Cardinality(BeingHandled) < MaxInFlight

\* A request arrives.
Arrival(r, request) ==
  /\ req' = [req EXCEPT ![r] = request]
  /\ before' = [before EXCEPT ![r] = AnsweredSlots]

\* res.status(status).json(body) / .send(body), the handler returns
Reply(r, status, body) ==
  /\ resp' = [resp EXCEPT ![r] = Append(@, [status |-> status, body |-> body, at |-> now])]
  /\ pc' = [pc EXCEPT ![r] = "done"]
  /\ UNCHANGED <<calls, unhandled>>

\* the handler issues an external call and awaits it
Await(r, call, label) ==
  /\ calls' = [calls EXCEPT ![r] = Append(@, call)]
  /\ pc' = [pc EXCEPT ![r] = label]
  /\ UNCHANGED <<resp, unhandled>>

\* app.use((err, req, res, next) => ...): after the headers went out the
\* error goes to the default handler, which sends nothing more; otherwise
\* 500 with the stringified error.
errorHandler(r, err) ==
  IF resp[r] # <<>>
  THEN /\ pc' = [pc EXCEPT ![r] = "done"]
       /\ UNCHANGED <<resp, calls, unhandled>>
  ELSE Reply(r, 500, [message |-> err])

\* An async handler without try/catch rejects: nothing answers the request,
\* process.on('unhandledRejection') logs the error.
Uncaught(r) ==
  /\ pc' = [pc EXCEPT ![r] = "hung"]
  /\ unhandled' = unhandled \cup {r}
  /\ UNCHANGED <<resp, calls>>

\* An error inside the register or login handler.
Throw(r, err) ==
  IF HasTryCatch(variant) THEN errorHandler(r, err) ELSE Uncaught(r)

----------------------------------------------------------------------------
(* POST /register *)

FieldFails(body, f) == f \notin DOMAIN body \/ Len(body[f]) < MinFieldLength

\* The message of the first failing check, "" when the body passes.
ValidationError(v, body) ==
  LET bad == {i \in 1..Len(Required) : FieldFails(body, Required[i])}
  IN IF ~HasValidation(v) THEN ""
     ELSE IF bad # {}
     THEN LET f == Required[CHOOSE i \in bad : \A j \in bad : i <= j]
          IN IF f \notin DOMAIN body
             THEN "Missing \"" \o f \o "\" attribute"
             ELSE "Value of \"" \o f \o "\" is too short"
     ELSE IF HasEmailValidation(v) /\ ~validateEmail(body.email)
     THEN "Invalid email address"
     ELSE ""

NotificationCall(v) == IF v = "part_001" THEN "SendEmail" ELSE "SendMessage"

RegisterArrives(r) ==
  /\ CanArrive(r)
  /\ \E request \in {q \in Offered(workload, variant, issued) : q.route = "register"} :
    /\ Arrival(r, request)
    /\ IF ValidationError(variant, request.body) # ""
       THEN Reply(r, 400, [message |-> ValidationError(variant, request.body)])
       ELSE Await(r, "GetItem", "reg_get")
    /\ UNCHANGED <<failed, variant, workload, table, now, ticks, local, inflight, issued>>

\* The existence check returns: taken, or hash the password and put the item.
\* Without validation (index.js) the password can be missing, and
\* pbkdf2Sync throws, or the username, and marshall throws.
RegisterGetItemReturns(r) ==
  /\ pc[r] = "reg_get"
  /\ LET body == req[r].body
     IN IF GetItem(UserKey(Str(body, "username"))) # undefined
        THEN /\ Reply(r, 400, [message |-> "Username already taken"])
             /\ UNCHANGED local
        ELSE IF "password" \notin DOMAIN body \/ "username" \notin DOMAIN body
        THEN /\ Throw(r, "TypeError")
             /\ UNCHANGED local
        ELSE \E salt \in Salts :
               /\ local' = [local EXCEPT
                              ![r].item = marshall(UserItem(variant, body, salt, now))]
               /\ Await(r, "PutItem", "reg_put")
  /\ UNCHANGED <<failed, variant, workload, table, now, ticks, req, inflight, issued, before>>

RegisterGetItemFails(r) ==
  /\ pc[r] = "reg_get"
  /\ Throw(r, "Error: GetItem")
  /\ failed' = failed \cup {r}
  /\ UNCHANGED <<variant, workload, table, now, ticks, req, local, inflight, issued, before>>

RegisterPutItemReturns(r) ==
  /\ pc[r] = "reg_put"
  /\ table' = PutItem(table, local[r].item)
  /\ IF HasNotification(variant)
     THEN Await(r, NotificationCall(variant), "reg_mail")
     ELSE Reply(r, 201, [message |-> "User registered successfully"])
  /\ UNCHANGED <<failed, variant, workload, now, ticks, req, local, inflight, issued, before>>

RegisterPutItemFails(r) ==
  /\ pc[r] = "reg_put"
  /\ Throw(r, "Error: PutItem")
  /\ failed' = failed \cup {r}
  /\ UNCHANGED <<variant, workload, table, now, ticks, req, local, inflight, issued, before>>

RegisterNotificationReturns(r) ==
  /\ pc[r] = "reg_mail"
  /\ Reply(r, 201, [message |-> "User registered successfully"])
  /\ UNCHANGED <<failed, variant, workload, table, now, ticks, req, local, inflight, issued, before>>

RegisterNotificationFails(r) ==
  /\ pc[r] = "reg_mail"
  /\ Throw(r, "Error: " \o NotificationCall(variant))
  /\ failed' = failed \cup {r}
  /\ UNCHANGED <<variant, workload, table, now, ticks, req, local, inflight, issued, before>>

----------------------------------------------------------------------------
(* POST /login *)

InvalidLogin == [message |-> "Invalid username or password"]

\* The body sent when the password does not match: part_001 sends the same
\* JSON object as for an unknown username, the older files send the bare
\* string.
WrongPasswordBody(v) ==
  IF v = "part_001" THEN InvalidLogin ELSE [text |-> "Invalid username or password"]

LoginArrives(r) ==
  /\ CanArrive(r)
  /\ \E request \in {q \in Offered(workload, variant, issued) : q.route = "login"} :
    /\ Arrival(r, request)
    /\ Await(r, "GetItem", "login_get")
    /\ UNCHANGED <<failed, variant, workload, table, now, ticks, local, inflight, issued>>

\* res.json({ token }) with a token signed under secretKey
IssueToken(r, email, secretKey) ==
  LET token == jwtSign(variant, req[r].body, email, now, secretKey)
  IN /\ Reply(r, 200, [token |-> token])
     /\ issued' = issued \cup {token}

\* userItem.data.email: undefined in a record index.js wrote
EmailOf(item) ==
  LET data == unmarshall(item).data
  IN IF "email" \in DOMAIN data THEN data.email ELSE <<>>

PasswordMatches(item, password) ==
  pbkdf2Sync(password, unmarshall(item).data.salt) = unmarshall(item).data.password

LoginGetItemReturns(r) ==
  /\ pc[r] = "login_get"
  /\ LET body == req[r].body
         item == GetItem(UserKey(Str(body, "username")))
     IN IF item = undefined
        THEN /\ Reply(r, 401, InvalidLogin)
             /\ UNCHANGED <<local, issued>>
        ELSE IF "password" \notin DOMAIN body
        THEN /\ Throw(r, "TypeError")
             /\ local' = [local EXCEPT ![r].item = item]
             /\ UNCHANGED issued
        ELSE IF ~PasswordMatches(item, body.password)
        THEN /\ Reply(r, 401, WrongPasswordBody(variant))
             /\ local' = [local EXCEPT ![r].item = item]
             /\ UNCHANGED issued
        ELSE IF UsesSsm(variant)
        THEN /\ local' = [local EXCEPT ![r].item = item]
             /\ Await(r, "GetParameter", "login_ssm")
             /\ UNCHANGED issued
        ELSE /\ local' = [local EXCEPT ![r].item = item, ![r].secretKey = HardCodedSecret]
             /\ IssueToken(r, EmailOf(item), HardCodedSecret)
  /\ UNCHANGED <<failed, variant, workload, table, now, ticks, req, inflight, before>>

LoginGetItemFails(r) ==
  /\ pc[r] = "login_get"
  /\ Throw(r, "Error: GetItem")
  /\ failed' = failed \cup {r}
  /\ UNCHANGED <<variant, workload, table, now, ticks, req, local, inflight, issued, before>>

LoginGetParameterReturns(r) ==
  /\ pc[r] = "login_ssm"
  /\ local' = [local EXCEPT ![r].secretKey = SsmParameterValue]
  /\ IssueToken(r, EmailOf(local[r].item), SsmParameterValue)
  /\ UNCHANGED <<failed, variant, workload, table, now, ticks, req, inflight, before>>

LoginGetParameterFails(r) ==
  /\ pc[r] = "login_ssm"
  /\ Throw(r, "Error: GetParameter")
  /\ failed' = failed \cup {r}
  /\ UNCHANGED <<variant, workload, table, now, ticks, req, local, inflight, issued, before>>

----------------------------------------------------------------------------
(* authMiddleware and the routes behind it *)

Unauthorized == [message |-> "Unauthorized"]

\* next() after req.user = decoded: the route handler runs up to its first
\* await or to its response.  PUT /todos/:id sends the PutItem without
\* awaiting it and answers at once.  (req.params.id is never empty: the
\* router matches /todos/:id only with a non-empty id.)
RouteHandler(r, request, decoded, secretKey) ==
  /\ local' = [local EXCEPT ![r] = [@ EXCEPT !.user = decoded, !.ran = TRUE,
                                               !.secretKey = secretKey]]
  /\ CASE request.route = "protected" ->
            /\ Reply(r, 200, [text |-> "Hello " \o Str(decoded, "username") \o "!"])
            /\ UNCHANGED inflight
       [] request.route = "getTodo" ->
            /\ Await(r, "GetItem", "todo_get")
            /\ UNCHANGED inflight
       [] OTHER ->
            /\ inflight' = inflight \cup
                 {[by |-> r,
                   item |-> marshall(TodoItem(variant, request.id,
                                              Str(decoded, "username"),
                                              request.body, now))]}
            /\ calls' = [calls EXCEPT ![r] = Append(@, "PutItem")]
            /\ resp' = [resp EXCEPT ![r] = Append(@,
                          [status |-> 200,
                           body |-> [message |-> "Todo successfully added"],
                           at |-> now])]
            /\ pc' = [pc EXCEPT ![r] = "done"]
            /\ UNCHANGED unhandled

\* The gate up to its first await: index.js verifies at once with the
\* hard-coded secret, the other files fetch the secret first.
AuthArrives(r) ==
  /\ CanArrive(r)
  /\ \E request \in {q \in Offered(workload, variant, issued) :
                     q.route \in {"protected", "getTodo", "putTodo"}} :
    /\ Arrival(r, request)
    /\ IF request.header = <<>> \/ HeaderToken(request.header) = <<>>
       THEN /\ Reply(r, 401, Unauthorized)
            /\ UNCHANGED <<local, inflight>>
       ELSE IF UsesSsm(variant)
       THEN /\ Await(r, "GetParameter", "auth_ssm")
            /\ UNCHANGED <<local, inflight>>
       ELSE IF jwtVerifies(HeaderToken(request.header), HardCodedSecret, now)
       THEN RouteHandler(r, request, jwtDecoded(HeaderToken(request.header)),
                         HardCodedSecret)
       ELSE /\ Reply(r, 401, Unauthorized)
            /\ UNCHANGED <<local, inflight>>
    /\ UNCHANGED <<failed, variant, workload, table, now, ticks, issued>>

AuthGetParameterReturns(r) ==
  /\ pc[r] = "auth_ssm"
  /\ IF jwtVerifies(HeaderToken(req[r].header), SsmParameterValue, now)
     THEN RouteHandler(r, req[r], jwtDecoded(HeaderToken(req[r].header)),
                       SsmParameterValue)
     ELSE /\ Reply(r, 401, Unauthorized)
          /\ local' = [local EXCEPT ![r].secretKey = SsmParameterValue]
          /\ UNCHANGED inflight
  /\ UNCHANGED <<failed, variant, workload, table, now, ticks, req, issued, before>>

AuthGetParameterFails(r) ==
  /\ pc[r] = "auth_ssm"
  /\ Reply(r, 401, Unauthorized)
  /\ failed' = failed \cup {r}
  /\ UNCHANGED <<variant, workload, table, now, ticks, req, local, inflight, issued, before>>

\* GET /todos/:id after its GetItem: the stored data, or [] when no item
TodoGetItemReturns(r) ==
  /\ pc[r] = "todo_get"
  /\ LET item == GetItem(TodoKey(variant, req[r].id, Str(local[r].user, "username")))
     IN Reply(r, 200, IF item # undefined THEN unmarshall(item).data ELSE <<>>)
  /\ UNCHANGED <<failed, variant, workload, table, now, ticks, req, local, inflight, issued, before>>

TodoGetItemFails(r) ==
  /\ pc[r] = "todo_get"
  /\ errorHandler(r, "Error: GetItem")
  /\ failed' = failed \cup {r}
  /\ UNCHANGED <<variant, workload, table, now, ticks, req, local, inflight, issued, before>>

\* The un-awaited PutItem of PUT /todos/:id reaches the table ...
TodoPutItemLands(w) ==
  /\ w \in inflight
  /\ table' = PutItem(table, w.item)
  /\ inflight' = inflight \ {w}
  /\ UNCHANGED <<failed, variant, workload, now, ticks, req, pc, local, calls, resp, unhandled,
                 issued, before>>

\* ... or is rejected, which only the unhandledRejection hook sees.
TodoPutItemFails(w) ==
  /\ w \in inflight
  /\ inflight' = inflight \ {w}
  /\ unhandled' = unhandled \cup {w.by}
  /\ failed' = failed \cup {w.by}
  /\ UNCHANGED <<variant, workload, table, now, ticks, req, pc, local, calls, resp,
                 issued, before>>

----------------------------------------------------------------------------
(* The clock *)

TickSteps == {1, TokenTtl - 1}

Tick ==
  /\ ticks < TicksOf(workload)
  /\ \E d \in TickSteps : now' = now + d
  /\ ticks' = ticks + 1
  /\ UNCHANGED <<variant, workload, table, req, pc, local, calls, resp, inflight,
                 unhandled, failed, issued, before>>

----------------------------------------------------------------------------

Next ==
  \/ Tick
  \/ \E r \in Slots :
       \/ RegisterArrives(r)
       \/ RegisterGetItemReturns(r)
       \/ RegisterGetItemFails(r)
       \/ RegisterPutItemReturns(r)
       \/ RegisterPutItemFails(r)
       \/ RegisterNotificationReturns(r)
       \/ RegisterNotificationFails(r)
       \/ LoginArrives(r)
       \/ LoginGetItemReturns(r)
       \/ LoginGetItemFails(r)
       \/ LoginGetParameterReturns(r)
       \/ LoginGetParameterFails(r)
       \/ AuthArrives(r)
       \/ AuthGetParameterReturns(r)
       \/ AuthGetParameterFails(r)
       \/ TodoGetItemReturns(r)
       \/ TodoGetItemFails(r)
  \/ \E w \in inflight :
       \/ TodoPutItemLands(w)
       \/ TodoPutItemFails(w)

Spec == Init /\ [][Next]_vars

----------------------------------------------------------------------------
(* One specification for each group of clients: its initial states and the *)
(* steps its requests can take.                                            *)

InitValidation == Init /\ workload = "validation"
InitAccounts == Init /\ workload = "accounts"
InitGate == Init /\ workload = "gate"
InitSession == Init /\ workload = "session"
InitTodos == Init /\ workload = "todos"

RegisterSteps(r) ==
  \/ RegisterArrives(r)
  \/ RegisterGetItemReturns(r)
  \/ RegisterGetItemFails(r)
  \/ RegisterPutItemReturns(r)
  \/ RegisterPutItemFails(r)
  \/ RegisterNotificationReturns(r)
  \/ RegisterNotificationFails(r)

LoginSteps(r) ==
  \/ LoginArrives(r)
  \/ LoginGetItemReturns(r)
  \/ LoginGetItemFails(r)
  \/ LoginGetParameterReturns(r)
  \/ LoginGetParameterFails(r)

AuthSteps(r) ==
  \/ AuthArrives(r)
  \/ AuthGetParameterReturns(r)
  \/ AuthGetParameterFails(r)

TodoGetSteps(r) ==
  \/ TodoGetItemReturns(r)
  \/ TodoGetItemFails(r)

TodoPutSteps ==
  \E w \in inflight :
    \/ TodoPutItemLands(w)
    \/ TodoPutItemFails(w)

NextValidation == \E r \in Slots : RegisterSteps(r)

NextAccounts == \E r \in Slots : RegisterSteps(r) \/ LoginSteps(r)

NextGate == (\E r \in Slots : AuthSteps(r) \/ TodoGetSteps(r)) \/ TodoPutSteps

NextSession ==
  \/ Tick
  \/ \E r \in Slots : RegisterSteps(r) \/ LoginSteps(r) \/ AuthSteps(r)
  \/ TodoPutSteps

NextTodos == (\E r \in Slots : AuthSteps(r) \/ TodoGetSteps(r)) \/ TodoPutSteps

SpecValidation == InitValidation /\ [][NextValidation]_vars
SpecAccounts == InitAccounts /\ [][NextAccounts]_vars
SpecGate == InitGate /\ [][NextGate]_vars
SpecSession == InitSession /\ [][NextSession]_vars
SpecTodos == InitTodos /\ [][NextTodos]_vars

----------------------------------------------------------------------------
(* What a client sees of a request *)

Answered(r) == resp[r] # <<>>
Status(r) == resp[r][1].status
Body(r) == resp[r][1].body

\* The handler will take no further step.
Finished(r) == pc[r] \in {"done", "hung"}

IsRegister(r) == req[r].route = "register"
IsLogin(r) == req[r].route = "login"
IsGated(r) == req[r].route \in {"protected", "getTodo", "putTodo"}

UsernameTaken == [message |-> "Username already taken"]

----------------------------------------------------------------------------
(* C1 *)

\* s registered a username with 201 before r arrived, and r registers the
\* same username with a body that passes validation.
RegistersAgain(r, s) ==
  /\ IsRegister(r)
  /\ IsRegister(s)
  /\ s \in before[r]
  /\ Status(s) = 201
  /\ ValidationError(variant, req[r].body) = ""
  /\ "username" \in DOMAIN req[r].body
  /\ "username" \in DOMAIN req[s].body
  /\ req[r].body.username = req[s].body.username

\* C1: once a POST /register for a username has been answered 201, a later
\* POST /register for the same username that passes validation is answered
\* 400 "Username already taken" as soon as its existence check returns,
\* whatever its other fields; it never writes to the table and is never
\* answered 201.  (A rejected existence check is the subject of C10.)
C1_RegisterTwice ==
  \A r \in Slots : \A s \in Slots :
    RegistersAgain(r, s) =>
      /\ "PutItem" \notin {calls[r][i] : i \in 1..Len(calls[r])}
      /\ Answered(r) => Status(r) # 201
      /\ (pc[r] # "reg_get" /\ r \notin failed) =>
           /\ Answered(r)
           /\ Status(r) = 400
           /\ Body(r) = UsernameTaken

\* A second registration with another password, fullname and email was
\* answered 400 "Username already taken".
C1_Witness ==
  \E r \in Slots : \E s \in Slots :
    /\ RegistersAgain(r, s)
    /\ Answered(r)
    /\ Status(r) = 400
    /\ Body(r) = UsernameTaken
    /\ req[r].body.password # req[s].body.password
    /\ req[r].body.email # req[s].body.email

----------------------------------------------------------------------------
(* C2 *)

CallsOf(r) == {calls[r][i] : i \in 1..Len(calls[r])}

\* The record the login fetched was written by a registration of the same
\* username with the password the login submits.
FetchedRecordHasPassword(r) ==
  /\ local[r].item # undefined
  /\ "password" \in DOMAIN req[r].body
  /\ \E s \in Slots :
       /\ IsRegister(s)
       /\ "PutItem" \in CallsOf(s)
       /\ local[s].item = local[r].item
       /\ Str(req[s].body, "username") = Str(req[r].body, "username")
       /\ req[s].body.password = req[r].body.password

\* C2: a POST /login none of whose external calls was rejected is answered
\* 200 with a token exactly when a record for the username exists and was
\* created with the submitted password; in every other case it is answered
\* 401 with no token and without fetching the secret.
C2_LoginExactly ==
  \A r \in Slots :
    (IsLogin(r) /\ Finished(r) /\ r \notin failed) =>
      IF FetchedRecordHasPassword(r)
      THEN /\ Answered(r)
           /\ Status(r) = 200
           /\ "token" \in DOMAIN Body(r)
      ELSE /\ Answered(r)
           /\ Status(r) = 401
           /\ "token" \notin DOMAIN Body(r)
           /\ "GetParameter" \notin CallsOf(r)

----------------------------------------------------------------------------
(* C3 *)

\* The username of login r had no record when r looked it up.
UnknownUsername(r) ==
  IsLogin(r) /\ Answered(r) /\ r \notin failed /\ local[r].item = undefined

\* Login r found a record and the submitted password is not its password.
WrongPassword(r) ==
  /\ IsLogin(r)
  /\ Answered(r)
  /\ r \notin failed
  /\ local[r].item # undefined
  /\ "password" \in DOMAIN req[r].body
  /\ ~FetchedRecordHasPassword(r)

\* C3: a login with an existing username and a wrong password gets the same
\* status and the same body as a login with a username that has no record.
C3_SameRejection ==
  \A r \in Slots : \A s \in Slots :
    (WrongPassword(r) /\ UnknownUsername(s)) =>
      /\ Status(r) = Status(s)
      /\ Body(r) = Body(s)

----------------------------------------------------------------------------
(* C4 *)

\* The request carries, as "Bearer <token>", a token a login issued.
BearsIssuedToken(r, t) == t \in issued /\ req[r].header = Bearer(t)

\* C4: behind the gate the route handler runs only for a request whose
\* token was issued by a login and has not expired, verified under the
\* signing secret (fetched for the request where the secret lives in the
\* parameter store), with the token's claims attached as req.user; a
\* request whose handler did not run issues no store call and, once
\* finished, has been answered 401 "Unauthorized" whatever the cause.
\* (The clock stands still in this workload; C6 is about time.)
C4_GateSafety ==
  \A r \in Slots :
    IsGated(r) =>
      /\ local[r].ran =>
           /\ \E t \in issued :
                /\ BearsIssuedToken(r, t)
                /\ now < t.payload.exp
                /\ local[r].user = t.payload
           /\ local[r].secretKey = SigningSecret(variant)
           /\ UsesSsm(variant) => calls[r][1] = "GetParameter"
           /\ Answered(r) => Status(r) # 401
      /\ ~local[r].ran =>
           /\ CallsOf(r) \subseteq {"GetParameter"}
           /\ \A w \in inflight : w.by # r
           /\ Finished(r) =>
                /\ Answered(r)
                /\ Status(r) = 401
                /\ Body(r) = Unauthorized

\* One request passed the gate with its token's identity, another, bearing
\* a token signed with a guessed key, was turned away.
C4_Witness ==
  \E r \in Slots : \E s \in Slots :
    /\ IsGated(r)
    /\ local[r].ran
    /\ local[r].user.username = "abc"
    /\ Answered(r)
    /\ Status(r) = 200
    /\ IsGated(s)
    /\ \E t \in issued : req[s].header = Bearer(Forged(t))
    /\ Answered(s)
    /\ Status(s) = 401
    /\ "GetParameter" \in CallsOf(s) \/ ~UsesSsm(variant)

----------------------------------------------------------------------------
(* C5 *)

\* No authorization header, or a scheme with no token after it.
HasNoToken(r) ==
  req[r].header \in {<<>>, <<Word("Bearer")>>, <<Word("Bearer"), Space>>}

\* C5: a request to a gated route with no authorization header, or with no
\* token after the scheme, is answered 401 in the step in which it arrives:
\* it never waits for the secret, issues no external call, never holds a
\* secret and its handler does not run.
C5_NoTokenNoFetch ==
  \A r \in Slots :
    (IsGated(r) /\ HasNoToken(r)) =>
      /\ pc[r] = "done"
      /\ calls[r] = <<>>
      /\ local[r].secretKey = ""
      /\ ~local[r].ran
      /\ Status(r) = 401
      /\ Body(r) = Unauthorized

\* Where the secret lives in the parameter store, a request with the scheme
\* and a space but no token was turned away without a call.
C5_Witness ==
  \E r \in Slots :
    /\ UsesSsm(variant)
    /\ IsGated(r)
    /\ req[r].header = <<Word("Bearer"), Space>>
    /\ calls[r] = <<>>
    /\ Answered(r)
    /\ Status(r) = 401

----------------------------------------------------------------------------
(* C6 *)

\* Login r was answered 200, and gated request g bears the token of that
\* answer and has been answered after a verification under the secret.
UsesLoginToken(g, r) ==
  /\ IsLogin(r)
  /\ Answered(r)
  /\ Status(r) = 200
  /\ IsGated(g)
  /\ req[g].header = Bearer(Body(r).token)
  /\ Answered(g)
  /\ UsesSsm(variant) => local[g].secretKey = SsmParameterValue

\* The time of the answer of g: the gate answers, or hands over to a route
\* handler that answers, in the step in which it verifies.
VerifiedAt(g) == resp[g][1].at

Accepted(g, r) ==
  /\ Status(g) = 200
  /\ local[g].ran
  /\ local[g].user.username = req[r].body.username

Rejected(g) ==
  /\ Status(g) = 401
  /\ Body(g) = Unauthorized
  /\ ~local[g].ran

\* The token of a login answered at time t names the user and has
\* exp = t + 43200.
TokenOfLogin(r) ==
  (IsLogin(r) /\ Answered(r) /\ Status(r) = 200) =>
    /\ Body(r).token.payload.username = req[r].body.username
    /\ Body(r).token.payload.exp = resp[r][1].at + TokenTtl

\* C6 as stated: the gate accepts the token at every time up to and
\* including exp and rejects it once now > exp.
C6_ValidThroughExpiry ==
  \A r \in Slots :
    /\ TokenOfLogin(r)
    /\ \A g \in Slots :
         UsesLoginToken(g, r) =>
           IF VerifiedAt(g) <= Body(r).token.payload.exp
           THEN Accepted(g, r)
           ELSE Rejected(g)

\* C6, amended: a token issued by a login answered at time t names the
\* logged-in user and has exp = t + 43200; the gate, under the same secret,
\* accepts it and yields that username at every time before exp and rejects
\* it with 401 from now = exp on, whatever registrations and todo writes
\* happen in between.
C6_ValidUntilExpiry ==
  \A r \in Slots :
    /\ TokenOfLogin(r)
    /\ \A g \in Slots :
         UsesLoginToken(g, r) =>
           IF VerifiedAt(g) < Body(r).token.payload.exp
           THEN Accepted(g, r)
           ELSE Rejected(g)

\* One token was accepted a second before its exp and rejected at its exp.
C6_Witness ==
  \E r \in Slots : \E g \in Slots : \E h \in Slots :
    /\ UsesLoginToken(g, r)
    /\ UsesLoginToken(h, r)
    /\ VerifiedAt(g) = Body(r).token.payload.exp - 1
    /\ Accepted(g, r)
    /\ VerifiedAt(h) = Body(r).token.payload.exp
    /\ Rejected(h)

----------------------------------------------------------------------------
(* C7 *)

IsGetTodo(r) == req[r].route = "getTodo"
IsPutTodo(r) == req[r].route = "putTodo"

\* The username in the token a gated request bears.
TokenUser(r) == req[r].header[3].payload.username

SameTodo(r, s) == TokenUser(r) = TokenUser(s) /\ req[r].id = req[s].id

\* The PUTs of the same user under the same id answered before r arrived.
PutsBefore(r) ==
  {s \in before[r] : IsPutTodo(s) /\ SameTodo(r, s) /\ Status(s) = 200}

\* Every PUT of the same user under the same id was answered before r
\* arrived, and they were answered one after the other.
PutsAreOver(r) ==
  /\ \A s \in Slots : (IsPutTodo(s) /\ SameTodo(r, s)) => s \in PutsBefore(r)
  /\ \A s \in PutsBefore(r) : \A q \in PutsBefore(r) : s < q => s \in before[q]

LastPut(r) == CHOOSE s \in PutsBefore(r) : \A q \in PutsBefore(r) : q <= s

\* C7: a GET /todos/i of a user, answered without a rejected call, returns
\* [] when the user has put nothing under i, and otherwise exactly the
\* payload of the user's last answered PUT /todos/i.
C7_RoundTrip ==
  \A r \in Slots :
    (IsGetTodo(r) /\ Answered(r) /\ r \notin failed /\ local[r].ran /\ PutsAreOver(r)) =>
      IF PutsBefore(r) = {}
      THEN Body(r) = <<>>
      ELSE Body(r) = req[LastPut(r)].body

----------------------------------------------------------------------------
(* C8 *)

\* C8: a GET /todos/i of user u returns [] or a payload that a PUT /todos/i
\* bearing a token of u carried; every todo item in the table sits under
\* the id and the username of a PUT that carried its data; and the user
\* records stay what they were.
C8_Partition ==
  /\ \A r \in Slots :
       (IsGetTodo(r) /\ Answered(r) /\ Status(r) = 200) =>
         \/ Body(r) = <<>>
         \/ \E s \in Slots :
              IsPutTodo(s) /\ local[s].ran /\ SameTodo(r, s) /\ req[s].body = Body(r)
  /\ \A k \in DOMAIN table :
       IF k \in DOMAIN RegisteredTable(variant)
       THEN table[k] = RegisteredTable(variant)[k]
       ELSE \E s \in Slots :
              /\ IsPutTodo(s)
              /\ local[s].ran
              /\ k.pk.S = "todo#" \o req[s].id
              /\ k.sk.S \in {"todo#" \o TokenUser(s), "todo-" \o TokenUser(s)}
              /\ unmarshall(table[k]).data = req[s].body
  /\ DOMAIN RegisteredTable(variant) \subseteq DOMAIN table

\* "bob" and "abc" both wrote under id 1, both writes are in the table, and
\* "abc" read back its own payload.
C8_Witness ==
  \E r \in Slots : \E s \in Slots : \E q \in Slots :
    /\ IsGetTodo(r) /\ TokenUser(r) = "abc" /\ req[r].id = "1"
    /\ IsPutTodo(s) /\ TokenUser(s) = "abc" /\ req[s].id = "1"
    /\ IsPutTodo(q) /\ TokenUser(q) = "bob" /\ req[q].id = "1"
    /\ req[q].body # req[s].body
    /\ inflight = {}
    /\ failed = {}
    /\ s \in before[r]
    /\ q \in before[r]
    /\ Answered(r)
    /\ Body(r) = req[s].body

----------------------------------------------------------------------------
(* C9 *)

\* C9: a POST /register whose body lacks a required attribute, has one
\* shorter than 3 characters or has an invalid email is answered 400 in the
\* step in which it arrives, without any external call.
C9_ValidationFirst ==
  \A r \in Slots :
    (IsRegister(r) /\ req[r].body \in InvalidRegisterBodies) =>
      /\ pc[r] = "done"
      /\ calls[r] = <<>>
      /\ Status(r) = 400

----------------------------------------------------------------------------
(* C10 *)

\* An external call of r made by the route handler, not by the gate, was
\* rejected.
FailedOutsideGate(r) == r \in failed /\ (IsGated(r) => local[r].ran)

\* C10: a request one of whose store, secret or notification calls was
\* rejected outside the gate is answered, if at all, with the catch-all 500.
C10_FailuresSurface ==
  \A r \in Slots :
    (FailedOutsideGate(r) /\ Answered(r)) => Status(r) = 500

----------------------------------------------------------------------------
(* C11 *)

\* r and s register the same username and both passed the existence check:
\* each found no record and went on to its write.
BothPassedCheck(r, s) ==
  /\ r # s
  /\ IsRegister(r)
  /\ IsRegister(s)
  /\ "username" \in DOMAIN req[r].body
  /\ "username" \in DOMAIN req[s].body
  /\ req[r].body.username = req[s].body.username
  /\ "PutItem" \in CallsOf(r)
  /\ "PutItem" \in CallsOf(s)

\* The record stored for the username r registers.
StoredUser(r) == table[UserKey(req[r].body.username)]

\* Two registrations of one username that both passed the existence check
\* and met no rejected call are both answered 201, and the store holds the
\* record of one of them.
BothRegistered ==
  \A r \in Slots : \A s \in Slots :
    (BothPassedCheck(r, s) /\ Finished(r) /\ Finished(s) /\ {r, s} \cap failed = {}) =>
      /\ Answered(r) /\ Status(r) = 201
      /\ Answered(s) /\ Status(s) = 201
      /\ StoredUser(r) \in {local[r].item, local[s].item}

\* The write of a registration lands with no condition: whatever the store
\* held under the username, it holds the record of this request afterwards.
WriteReplaces ==
  \A r \in Slots :
    (IsRegister(r) /\ pc[r] = "reg_put" /\ pc'[r] # "reg_put" /\ r \notin failed') =>
      /\ UserKey(req[r].body.username) \in DOMAIN table'
      /\ table'[UserKey(req[r].body.username)] = local[r].item

\* C11: the existence check and the write of POST /register are separate
\* calls and the write carries no condition: two registrations of one
\* username that both pass the check are both answered 201, and each
\* landing write replaces the record the store held.
C11_RegistrationRace == []BothRegistered /\ [][WriteReplaces]_vars

\* Two registrations of "abc" with different profiles both passed the check
\* and were both answered 201; the store holds the record of one and no
\* longer that of the other.
C11_Witness ==
  \E r \in Slots : \E s \in Slots :
    /\ BothPassedCheck(r, s)
    /\ Answered(r) /\ Status(r) = 201
    /\ Answered(s) /\ Status(s) = 201
    /\ local[r].item # local[s].item
    /\ StoredUser(r) = local[s].item
    /\ unmarshall(StoredUser(r)).data.password # unmarshall(local[r].item).data.password

----------------------------------------------------------------------------
(* C12 *)

\* The keys of the user records in table tbl.
UserKeys(tbl) == {k \in DOMAIN tbl : k.sk.S = "user"}

\* In a step, every user record of the store is still there with the
\* password hash and the salt it had.
CredentialsKept ==
  \A k \in UserKeys(table) :
    /\ k \in DOMAIN table'
    /\ table'[k].data.M.password = table[k].data.M.password
    /\ table'[k].data.M.salt = table[k].data.M.salt

\* C12: once the store holds a user record for a username, no step of any
\* register, login or todo request changes its password hash or its salt.
C12_CredentialsImmutable == [][CredentialsKept]_vars

----------------------------------------------------------------------------
(* C13 *)

\* r wrote its user record and its welcome notification was then rejected;
\* no other registration of the username got past the existence check.
NotificationFailed(r) ==
  /\ IsRegister(r)
  /\ r \in failed
  /\ Len(calls[r]) = 3
  /\ calls[r][3] = NotificationCall(variant)
  /\ \A q \in Slots : ~BothPassedCheck(r, q)

\* s arrived after r was answered and asks for the username of r.
Retries(s, r) ==
  /\ r \in before[s]
  /\ Finished(s)
  /\ s \notin failed
  /\ "username" \in DOMAIN req[s].body
  /\ req[s].body.username = req[r].body.username

\* C13: a POST /register whose notification is rejected after the record
\* was written is answered 500, the record stays in the store, a later
\* registration of the username gets 400 "Username already taken" and a
\* later login with the username and password gets 200 and a token.
C13_NoRollback ==
  \A r \in Slots :
    NotificationFailed(r) =>
      /\ Answered(r)
      /\ Status(r) = 500
      /\ UserKey(req[r].body.username) \in DOMAIN table
      /\ StoredUser(r) = local[r].item
      /\ \A s \in Slots :
           (Retries(s, r) /\ IsRegister(s)) =>
             (Status(s) = 400 /\ Body(s) = UsernameTaken)
      /\ \A s \in Slots :
           (/\ Retries(s, r)
            /\ IsLogin(s)
            /\ "password" \in DOMAIN req[s].body
            /\ req[s].body.password = req[r].body.password) =>
             (Answered(s) /\ Status(s) = 200 /\ "token" \in DOMAIN Body(s))

----------------------------------------------------------------------------
(* C14 *)

\* C14: no request gets a second response, and no handler or middleware
\* comes to rest, after whatever outcome of its external calls, with its
\* request unanswered.
C14_ExactlyOneResponse ==
  \A r \in Slots :
    /\ Len(resp[r]) <= 1
    /\ Finished(r) => Len(resp[r]) = 1

====
